---- MODULE Spec2Model ----
(***************************************************************************)
(* A model of the LaTeX live preview: the backend selection of App, the    *)
(* delimiter passes of processLatex, the normalizer normalizeToAscii (both *)
(* variants) and fixCommasInMath.                                          *)
(*                                                                         *)
(* A string is a sequence of one-character strings.  Inside processLatex a *)
(* string is a sequence of items [ch, src]: ch is the character (or one    *)
(* HTML tag written by the program or by the renderer, kept as one unit)   *)
(* and src is the position in the text of the character it comes from (for *)
(* a tag or a placeholder character: of the first character of the match   *)
(* it replaces).  src is bookkeeping of the model, no pass reads it.       *)
(***************************************************************************)
EXTENDS Integers, Sequences, FiniteSets, TLC

VARIABLES
    latexInput,          \* App: useState latexInput
    containsTikz,        \* App: the value computed by the last render
    preview,             \* App: the component the last render shows
    reading,             \* App: clipboard reads asked for and not yet settled
    alerts,              \* App: notices shown by alert()
    clipboardText,       \* App: const text, the last text readText() gave
    edits,               \* number of user actions so far (bounds the run)
    text,                \* argument of the pure function under check
    throwCall,           \* which call of katex.renderToString throws (0: none)
    pc,                  \* position inside the function under check
    lines,               \* processLatex: text.split('\n')
    processedLine,       \* processLatex: let processedLine
    dollarDollarMatches, \* processLatex: const dollarDollarMatches
    processedLines,      \* processLatex: const processedLines
    calls,               \* number of calls of katex.renderToString so far
    spans,               \* the matches of the passes on the current line
    html,                \* processLatex: the returned string
    variant,             \* which normalizeToAscii was called (1: part_001, 2: part_002)
    normalizedCode,      \* the result of normalizeToAscii
    renormalized,        \* the result of normalizeToAscii on normalizedCode
    fixedCommas,         \* the result of fixCommasInMath
    result,              \* LatexPreview: the { html, error } of useMemo
    raised,              \* LatexPreview: processLatex ended by an exception
    scale,               \* frame script: let scale, in thousandths
    panX,                \* frame script: let panX
    panY,                \* frame script: let panY
    isDragging,          \* frame script: let isDragging
    startX,              \* frame script: let startX
    startY,              \* frame script: let startY
    startPanX,           \* frame script: let startPanX
    startPanY,           \* frame script: let startPanY
    hasFitToView,        \* frame script: let hasFitToView
    lastTouchDistance,   \* frame script: let lastTouchDistance
    lastTouchCenter,     \* frame script: let lastTouchCenter
    transform,           \* frame script: content.style.transform as <<x, y, scale>>
    svg,                 \* the diagram element and what measuring it gives
    containerRect,       \* container.getBoundingClientRect() as <<width, height>>
    checkSVG,            \* the interval of the size poll is set
    fitTimer,            \* the time the 50 ms timer is due at (-1: not set)
    timedOut,            \* the callback of the 5000 ms timer has run
    now,                 \* milliseconds since the script ran
    ticks,               \* runs of the callback of the size poll
    fits,                \* runs of fitToView that reached its last line
    events               \* user events so far (bounds the run)

vars == <<latexInput, containsTikz, preview, reading, alerts, clipboardText, edits, text, throwCall, pc, lines,
          processedLine, dollarDollarMatches, processedLines, calls, spans, html,
          variant, normalizedCode, renormalized, fixedCommas, result, raised,
          scale, panX, panY, isDragging, startX, startY, startPanX, startPanY,
          hasFitToView, lastTouchDistance, lastTouchCenter, transform, svg,
          containerRect, checkSVG, fitTimer, timedOut, now, ticks, fits, events>>

appVars == <<latexInput, containsTikz, preview, reading, alerts, clipboardText, edits>>
tikzVars == <<variant, normalizedCode, renormalized, fixedCommas>>
zoomVars == <<scale, panX, panY, transform>>
dragVars == <<isDragging, startX, startY, startPanX, startPanY>>
touchVars == <<lastTouchDistance, lastTouchCenter>>
timerVars == <<checkSVG, fitTimer, timedOut, now, ticks>>
frameVars == <<zoomVars, dragVars, touchVars, timerVars, hasFitToView, fits,
               svg, containerRect, events>>
viewVars == <<result, raised, frameVars>>
segVars == <<text, throwCall, pc, lines, processedLine, dollarDollarMatches,
             processedLines, calls, spans, html, tikzVars>>
lineVars == <<lines, processedLine, dollarDollarMatches, processedLines, calls,
              spans, html, throwCall>>

-----------------------------------------------------------------------------
(* Strings *)

RECURSIVE Flatten(_)
Flatten(ss) == IF ss = <<>> THEN <<>> ELSE Head(ss) \o Flatten(Tail(ss))

Min(S) == CHOOSE x \in S : \A y \in S : x <= y

\* w occurs in the character sequence s at position i
OccursAt(s, i, w) ==
    /\ i >= 1
    /\ i + Len(w) - 1 <= Len(s)
    /\ \A k \in 1..Len(w) : s[i + k - 1] = w[k]

\* the piece w stands somewhere in s
Occurs(s, w) == \E i \in 1..(Len(s) - Len(w) + 1) : OccursAt(s, i, w)

Chars(items) == [i \in 1..Len(items) |-> items[i].ch]

Items(t) == [i \in 1..Len(t) |-> [ch |-> t[i], src |-> i]]

Srcs(items) == {items[i].src : i \in 1..Len(items)}


-----------------------------------------------------------------------------
(* processLatex: the HTML written by the program and by the renderer *)

\* katex.renderToString(expr, {displayMode: false}): the opening of its HTML
KatexOpen == "<span class=\"katex\">"
\* katex.renderToString(expr, {displayMode: true}): the opening of its HTML
KatexDisplayOpen == "<span class=\"katex-display\">"
KatexErrorOpen == "<span class=\"katex-error\">"
SpanClose == "</span>"
BrTag == "<br>"

Tags == {KatexOpen, KatexDisplayOpen, KatexErrorOpen, SpanClose, BrTag}

\* a tag after escapeHtml: its < and > are written &lt; and &gt;
EscapeTag(t) ==
    CASE t = KatexOpen -> "&lt;span class=\"katex\"&gt;"
      [] t = KatexDisplayOpen -> "&lt;span class=\"katex-display\"&gt;"
      [] t = KatexErrorOpen -> "&lt;span class=\"katex-error\"&gt;"
      [] t = SpanClose -> "&lt;/span&gt;"
      [] t = BrTag -> "&lt;br&gt;"
      [] OTHER -> t

\* the units that hold the substring katex
KatexTags == {KatexOpen, KatexDisplayOpen, KatexErrorOpen,
              EscapeTag(KatexOpen), EscapeTag(KatexDisplayOpen),
              EscapeTag(KatexErrorOpen)}

EscapeChar(c, src) ==
    CASE c = "<" -> <<[ch |-> "&", src |-> src], [ch |-> "l", src |-> src],
                      [ch |-> "t", src |-> src], [ch |-> ";", src |-> src]>>
      [] c = ">" -> <<[ch |-> "&", src |-> src], [ch |-> "g", src |-> src],
                      [ch |-> "t", src |-> src], [ch |-> ";", src |-> src]>>
      [] c = "&" -> <<[ch |-> "&", src |-> src], [ch |-> "a", src |-> src],
                      [ch |-> "m", src |-> src], [ch |-> "p", src |-> src],
                      [ch |-> ";", src |-> src]>>
      [] c \in Tags -> <<[ch |-> EscapeTag(c), src |-> src]>>
      [] OTHER -> <<[ch |-> c, src |-> src]>>

\* escapeHtml: div.textContent = str; return div.innerHTML
escapeHtml(str) ==
    Flatten([i \in 1..Len(str) |-> EscapeChar(str[i].ch, str[i].src)])

WhiteSpace == {" ", "\t", "\n"}

RECURSIVE TrimStart(_)
TrimStart(s) ==
    IF s # <<>> /\ Head(s).ch \in WhiteSpace THEN TrimStart(Tail(s)) ELSE s

RECURSIVE TrimEnd(_)
TrimEnd(s) ==
    IF s # <<>> /\ s[Len(s)].ch \in WhiteSpace
    THEN TrimEnd(SubSeq(s, 1, Len(s) - 1)) ELSE s

\* String.prototype.trim
Trim(s) == TrimEnd(TrimStart(s))

\* katex.renderToString(content, {displayMode, throwOnError: false}) when it
\* returns: the renderer's HTML, which carries the TeX source it was given
\* (KaTeX's default output holds it in the MathML annotation)
KatexRender(content, displayMode, src) ==
    <<[ch |-> IF displayMode THEN KatexDisplayOpen ELSE KatexOpen, src |-> src]>>
    \o escapeHtml(content)
    \o <<[ch |-> SpanClose, src |-> src]>>

\* `<span class="katex-error">${escapeHtml(match)}</span>`
ErrorSpan(match) ==
    <<[ch |-> KatexErrorOpen, src |-> match[1].src]>>
    \o escapeHtml(match)
    \o <<[ch |-> SpanClose, src |-> match[1].src]>>

\* const placeholder = '___DOLLAR_DOLLAR___'
placeholder ==
    <<"_", "_", "_", "D", "O", "L", "L", "A", "R", "_",
      "D", "O", "L", "L", "A", "R", "_", "_", "_">>

PlaceholderItems(src) == [i \in 1..Len(placeholder) |-> [ch |-> placeholder[i], src |-> src]]

-----------------------------------------------------------------------------
(* processLatex: the four delimiter passes *)

\* /\\\[([\s\S]*?)\\\]/g
BracketRegex ==
    [pass |-> "bracket", open |-> <<"\\", "[">>, close |-> <<"\\", "]">>,
     minLen |-> 0, exclude |-> {}, displayMode |-> TRUE, protect |-> FALSE]
\* /\$\$([\s\S]*?)\$\$/g
DollarDollarRegex ==
    [pass |-> "dollardollar", open |-> <<"$", "$">>, close |-> <<"$", "$">>,
     minLen |-> 0, exclude |-> {}, displayMode |-> TRUE, protect |-> TRUE]
\* /\\\(([\s\S]*?)\\\)/g
ParenRegex ==
    [pass |-> "paren", open |-> <<"\\", "(">>, close |-> <<"\\", ")">>,
     minLen |-> 0, exclude |-> {}, displayMode |-> FALSE, protect |-> FALSE]
\* /\$([^$\n]+?)\$/g
DollarRegex ==
    [pass |-> "dollar", open |-> <<"$">>, close |-> <<"$">>,
     minLen |-> 1, exclude |-> {"$", "\n"}, displayMode |-> FALSE, protect |-> FALSE]

\* The regular expression tried at position i of s: the position of the last
\* character of the match, 0 when it does not match there.  The lazy group
\* ends at the first closing delimiter that leaves it at least minLen long.
MatchEnd(s, i, re) ==
    LET c == Chars(s)
        from == i + Len(re.open) + re.minLen
        closes == {j \in from..Len(s) : OccursAt(c, j, re.close)}
    IN  IF ~OccursAt(c, i, re.open) \/ closes = {} THEN 0
        ELSE LET j == Min(closes)
             IN  IF \E k \in (i + Len(re.open))..(j - 1) : c[k] \in re.exclude
                 THEN 0
                 ELSE j + Len(re.close) - 1

\* The replacer callback of a pass on one match m: the renderer is called with
\* the trimmed group; the tc-th call of the renderer throws.
Replacement(m, re, n, tc) ==
    IF n = tc
    THEN ErrorSpan(m)
    ELSE KatexRender(Trim(SubSeq(m, Len(re.open) + 1, Len(m) - Len(re.close))),
                     re.displayMode, m[1].src)

\* processedLine.replace(re, callback) from position i on; st holds the string
\* built so far, the side list, the number of renderer calls and the matches
RECURSIVE ReplaceFrom(_, _, _, _, _)
ReplaceFrom(s, i, re, tc, st) ==
    IF i > Len(s) THEN st
    ELSE LET e == MatchEnd(s, i, re) IN
         IF e = 0
         THEN ReplaceFrom(s, i + 1, re, tc, [st EXCEPT !.out = Append(@, s[i])])
         ELSE LET m == SubSeq(s, i, e)
                  n == st.calls + 1
                  r == Replacement(m, re, n, tc)
                  sp == [pass |-> re.pass, call |-> n, threw |-> (n = tc),
                         match |-> m, open |-> m[1].src, close |-> m[Len(m)].src,
                         content |-> Chars(Trim(SubSeq(m, Len(re.open) + 1,
                                                         Len(m) - Len(re.close)))),
                         displayMode |-> re.displayMode, rendered |-> r]
              IN  ReplaceFrom(s, e + 1, re, tc,
                      [out |-> st.out
                                 \o (IF re.protect THEN PlaceholderItems(m[1].src) ELSE r),
                       dd |-> IF re.protect THEN Append(st.dd, r) ELSE st.dd,
                       calls |-> n,
                       spans |-> Append(st.spans, sp)])

ReplaceAll(s, re, tc, dd, n, sps) ==
    ReplaceFrom(s, 1, re, tc, [out |-> <<>>, dd |-> dd, calls |-> n, spans |-> sps])

\* new RegExp(placeholder, 'g') replaced by dollarDollarMatches[placeholderIndex++] || ''
RECURSIVE RestoreFrom(_, _, _, _, _)
RestoreFrom(s, i, dd, placeholderIndex, out) ==
    IF i > Len(s) THEN out
    ELSE IF OccursAt(Chars(s), i, placeholder)
         THEN RestoreFrom(s, i + Len(placeholder), dd, placeholderIndex + 1,
                          out \o (IF placeholderIndex + 1 <= Len(dd)
                                  THEN dd[placeholderIndex + 1] ELSE <<>>))
         ELSE RestoreFrom(s, i + 1, dd, placeholderIndex, Append(out, s[i]))

Restore(s, dd) == RestoreFrom(s, 1, dd, 0, <<>>)

\* processedLine.includes('katex')
IncludesKatex(s) ==
    \E i \in 1..Len(s) :
        \/ s[i].ch \in KatexTags
        \/ OccursAt(Chars(s), i, <<"k", "a", "t", "e", "x">>)

\* if (!processedLine.includes('katex')) processedLine = escapeHtml(processedLine)
EscapeIfPlain(s) == IF IncludesKatex(s) THEN s ELSE escapeHtml(s)

\* text.split('\n'), on items
RECURSIVE SplitFrom(_, _, _, _)
SplitFrom(s, i, cur, acc) ==
    IF i > Len(s) THEN Append(acc, cur)
    ELSE IF s[i].ch = "\n"
         THEN SplitFrom(s, i + 1, <<>>, Append(acc, cur))
         ELSE SplitFrom(s, i + 1, Append(cur, s[i]), acc)

SplitLines(s) == SplitFrom(s, 1, <<>>, <<>>)

\* processedLines.join('<br>')
RECURSIVE Join(_)
Join(ls) ==
    IF ls = <<>> THEN <<>>
    ELSE IF Len(ls) = 1 THEN ls[1]
    ELSE ls[1] \o <<[ch |-> BrTag, src |-> 0]>> \o Join(Tail(ls))


-----------------------------------------------------------------------------
(* processLatex: the body of the loop over the lines, pass by pass.  A line    *)
(* state st holds the string (out), the side list of the $$ blocks (dd), the   *)
(* number of renderer calls (calls) and the matches found so far (spans).      *)

\* lines 62-71: let processedLine = line, then the \[...\] blocks
BracketPass(line, tc, n) == ReplaceAll(line, BracketRegex, tc, <<>>, n, <<>>)

\* the $$ pass left out: the line goes to the inline passes as it is
NoDollarDollarPass(st, tc) == [st EXCEPT !.dd = <<>>]

\* lines 73-85: the $$...$$ blocks, replaced by the placeholder
DollarDollarPass(st, tc) ==
    ReplaceAll(st.out, DollarDollarRegex, tc, <<>>, st.calls, st.spans)

\* lines 87-94: the inline \(...\)
ParenPass(st, tc) == ReplaceAll(st.out, ParenRegex, tc, st.dd, st.calls, st.spans)

\* lines 96-103: the inline $...$
DollarPass(st, tc) == ReplaceAll(st.out, DollarRegex, tc, st.dd, st.calls, st.spans)

\* lines 105-109: the placeholders are replaced by the side list, in order
RestorePass(st) == [st EXCEPT !.out = Restore(st.out, st.dd)]

\* lines 111-114
EscapePass(st) == [st EXCEPT !.out = EscapeIfPlain(st.out)]

\* one iteration of the loop, the tc-th renderer call throwing, after n calls
ProcessLine(line, tc, n) ==
    EscapePass(RestorePass(DollarPass(ParenPass(
        DollarDollarPass(BracketPass(line, tc, n), tc), tc), tc)))

-----------------------------------------------------------------------------
(* Bounds and inputs *)

MaxFrags == 4      \* a text is made of at most MaxFrags fragments
MaxThrow == 2      \* the renderer call that throws is one of the first MaxThrow

\* the fragments the texts given to processLatex are made of
SegFrags ==
    {<<"\\", "[">>, <<"\\", "]">>, <<"\\", "(">>, <<"\\", ")">>, <<"$">>,
     <<"a">>, <<"<">>, <<"\n">>, <<"k", "a", "t", "e", "x">>, placeholder}

\* the texts of the examples of the specification
ExampleDollars ==
    <<"$", "$", "a", "+", "b", "$", "$", " ", "a", "n", "d", " ", "$", "c", "$">>
ExampleBracket == <<"\\", "[", " ", "x", "^", "2", " ", "\\", "]">>
ExampleUnterminated ==
    <<"$", "u", "n", "t", "e", "r", "m", "i", "n", "a", "t", "e", "d">>

ExampleRescan == <<"\\", "[", "$", "a", "$", "\\", "]">>
ExampleNested == <<"$", "a", " ", "\\", "[", "b", "\\", "]", " ", "c", "$">>

\* the text of the placeholder written in the line, before a block:
\* "___DOLLAR_DOLLAR___ $$a$$"
ExamplePlaceholder == placeholder \o <<" ", "$", "$", "a", "$", "$">>
\* two blocks: "$$a$$<$$b$$"
ExampleTwoBlocks ==
    <<"$", "$", "a", "$", "$", "<", "$", "$", "b", "$", "$">>

ExampleTexts ==
    {ExampleDollars, ExampleBracket, ExampleUnterminated, ExampleRescan,
     ExampleNested, ExamplePlaceholder, ExampleTwoBlocks}

TextsOf(frags, n) ==
    UNION {{Flatten(f) : f \in [1..k -> frags]} : k \in 0..n}

SegTexts == TextsOf(SegFrags, MaxFrags) \cup ExampleTexts

-----------------------------------------------------------------------------
(* processLatex as a state machine *)

-----------------------------------------------------------------------------
(* App: the input, the clipboard and the choice of the preview *)

MaxEdits == 3      \* user actions in one run

\* the literal the regular expression /\\begin\{tikzpicture\}/ looks for
TikzMarker ==
    <<"\\", "b", "e", "g", "i", "n", "{", "t", "i", "k", "z",
      "p", "i", "c", "t", "u", "r", "e", "}">>

\* const defaultExample
defaultExample ==
    <<"\n", "\\", "[", "\n",
      "\\", "b", "e", "g", "i", "n", "{", "a", "l", "i", "g", "n", "e", "d", "}", "\n",
      "x", " ", "&", "=", " ", "1", "+", "1", "\\", "\\", "\n",
      "y", " ", "&", "=", " ", "2", "+", "2", "\n",
      "\\", "e", "n", "d", "{", "a", "l", "i", "g", "n", "e", "d", "}", "\n",
      "\\", "]", "\n">>

\* the regular expression tried at position i only
RECURSIVE LiteralAt(_, _, _)
LiteralAt(s, i, w) ==
    IF w = <<>> THEN TRUE
    ELSE IF i > Len(s) \/ s[i] # Head(w) THEN FALSE
    ELSE LiteralAt(s, i + 1, Tail(w))

\* the regular expression tried at each position of s in turn
TestFrom(s, w) == \E i \in 1..Len(s) : LiteralAt(s, i, w)

\* the test made at the start of the input only
TestAtStart(s) == LiteralAt(s, 1, TikzMarker)

\* /\\begin\{tikzpicture\}/.test(latexInput)
RegexTest(s) == TestFrom(s, TikzMarker)

\* lines 83-87
Preview(tikz) == IF tikz THEN "TikzPreview" ELSE "KatexPreview"

\* what the user types or deletes in the textarea, a piece at a time
AppFrags ==
    {TikzMarker, Tail(TikzMarker), SubSeq(TikzMarker, 1, 11),
     SubSeq(TikzMarker, 12, 19), <<"\\">>, <<"$">>, <<"$", "$">>,
     <<"\\", "[">>, <<"\\", "(">>, <<" ">>}

\* what the clipboard may hold
ClipTexts ==
    {<<>>, TikzMarker, <<"$", "$">> \o TikzMarker \o <<"$", "$">>,
     <<"$", "a", ",", "b", "$">>}

\* the values an onChange event may carry when the input is s
Edited(s) ==
    {s \o f : f \in AppFrags} \cup {f \o s : f \in AppFrags}
    \cup (IF s = <<>> THEN {} ELSE {Tail(s), SubSeq(s, 1, Len(s) - 1)})

\* setLatexInput(v) and the render that follows
SetLatexInput(v) ==
    /\ latexInput' = v
    /\ containsTikz' = RegexTest(v)
    /\ preview' = Preview(RegexTest(v))

\* null, and a value that is not null
Null == <<>>
Some(v) == <<v>>

\* no diagram element in the frame
NoSvg ==
    [present |-> FALSE, throws |-> FALSE, bbox |-> <<0, 0>>, client |-> <<0, 0>>,
     rect |-> <<0, 0>>]

\* part_001 lines 296-304 and 415-416: the variables of the frame script as
\* they are declared
ScriptStart ==
    /\ scale = 1000
    /\ panX = 0
    /\ panY = 0
    /\ isDragging = FALSE
    /\ startX = 0
    /\ startY = 0
    /\ startPanX = 0
    /\ startPanY = 0
    /\ hasFitToView = FALSE
    /\ lastTouchDistance = 0
    /\ lastTouchCenter = [x |-> 0, y |-> 0]
    /\ transform = <<0, 0, 1000>>
    /\ svg = NoSvg
    /\ fitTimer = -1
    /\ timedOut = FALSE
    /\ now = 0
    /\ ticks = 0
    /\ fits = 0
    /\ events = 0

\* no frame script runs
FrameIdle ==
    /\ ScriptStart
    /\ containerRect = <<0, 0>>
    /\ checkSVG = FALSE

\* no preview component has rendered
ViewIdle ==
    /\ result = [html |-> Null, error |-> Null]
    /\ raised = FALSE
    /\ FrameIdle

TikzIdle ==
    /\ variant = 0
    /\ normalizedCode = <<>>
    /\ renormalized = <<>>
    /\ fixedCommas = <<>>

LineIdle ==
    /\ throwCall = 0
    /\ lines = <<>>
    /\ processedLine = <<>>
    /\ dollarDollarMatches = <<>>
    /\ processedLines = <<>>
    /\ calls = 0
    /\ spans = <<>>
    /\ html = <<>>

\* no call of processLatex, normalizeToAscii or fixCommasInMath is under way
PureIdle ==
    /\ text = <<>>
    /\ pc = "idle"
    /\ LineIdle
    /\ TikzIdle
    /\ ViewIdle

Init ==
    /\ latexInput = defaultExample
    /\ containsTikz = RegexTest(defaultExample)
    /\ preview = Preview(RegexTest(defaultExample))
    /\ reading = 0
    /\ alerts = 0
    /\ clipboardText = <<>>
    /\ edits = 0
    /\ PureIdle

\* line 56: onChange={(e) => setLatexInput(e.target.value)}
Change ==
    /\ edits < MaxEdits
    /\ \E v \in Edited(latexInput) : SetLatexInput(v)
    /\ edits' = edits + 1
    /\ UNCHANGED <<viewVars, reading, alerts, clipboardText, segVars>>

\* line 30
handleClear ==
    /\ edits < MaxEdits
    /\ SetLatexInput(<<>>)
    /\ edits' = edits + 1
    /\ UNCHANGED <<viewVars, reading, alerts, clipboardText, segVars>>

\* lines 21-23: the click, up to the await of readText()
handlePasteFromClipboard ==
    /\ edits < MaxEdits
    /\ reading' = reading + 1
    /\ edits' = edits + 1
    /\ UNCHANGED <<viewVars, latexInput, containsTikz, preview, alerts, clipboardText, segVars>>

\* lines 23-24: readText() resolves
ClipboardResolved ==
    /\ reading > 0
    /\ \E v \in ClipTexts :
           /\ clipboardText' = v
           /\ SetLatexInput(v)
    /\ reading' = reading - 1
    /\ UNCHANGED <<viewVars, alerts, edits, segVars>>

\* a catch branch that also empties the input
RejectedClears ==
    /\ reading > 0
    /\ alerts' = alerts + 1
    /\ reading' = reading - 1
    /\ SetLatexInput(<<>>)
    /\ UNCHANGED <<viewVars, clipboardText, edits, segVars>>

\* lines 25-27: readText() rejects
ClipboardRejected ==
    /\ reading > 0
    /\ alerts' = alerts + 1
    /\ reading' = reading - 1
    /\ UNCHANGED <<viewVars, latexInput, containsTikz, preview, clipboardText, edits, segVars>>

Next ==
    \/ Change
    \/ handleClear
    \/ handlePasteFromClipboard
    \/ ClipboardResolved
    \/ ClipboardRejected

Spec == Init /\ [][Next]_vars

\* the literal stands somewhere in s
HoldsMarker(s) ==
    \E i \in 1..(Len(s) - Len(TikzMarker) + 1) :
        SubSeq(s, i, i + Len(TikzMarker) - 1) = TikzMarker

\* C1: the diagram path is chosen exactly when the raw input holds the literal
\* \begin{tikzpicture} somewhere, whatever surrounds it.
BackendSelection ==
    /\ containsTikz <=> HoldsMarker(latexInput)
    /\ preview = "TikzPreview" <=> HoldsMarker(latexInput)

\* the diagram path chosen for a marker inside math delimiters
BackendSelectionWitness ==
    /\ preview = "TikzPreview"
    /\ Len(latexInput) > Len(TikzMarker)
    /\ latexInput[1] = "$"
    /\ edits > 0

\* C12: a paste settles either by a notice that leaves the input as it was
\* just before (the read was rejected), or without a notice and with the input
\* set to exactly the text read; and a notice is shown only by a rejected read.
ClipboardFailure ==
    [][/\ reading' < reading =>
              \/ /\ alerts' = alerts + 1
                 /\ latexInput' = latexInput
                 /\ clipboardText' = clipboardText
              \/ /\ alerts' = alerts
                 /\ latexInput' = clipboardText'
       /\ alerts' # alerts => reading' = reading - 1 /\ latexInput' = latexInput
      ]_vars

\* a read was rejected after the input had been edited and a text pasted, and
\* the edited input with the pasted text is still there
ClipboardFailureWitness ==
    /\ alerts > 0
    /\ reading = 0
    /\ clipboardText # <<>>
    /\ latexInput # clipboardText
    /\ latexInput # <<>>
    /\ latexInput # defaultExample

-----------------------------------------------------------------------------
(* The states of the application while a pure function is checked *)

AppIdle ==
    /\ latexInput = <<>>
    /\ containsTikz = FALSE
    /\ preview = "KatexPreview"
    /\ reading = 0
    /\ alerts = 0
    /\ clipboardText = <<>>
    /\ edits = 0

InitSeg ==
    /\ AppIdle
    /\ TikzIdle
    /\ ViewIdle
    /\ text \in SegTexts
    /\ throwCall \in 0..MaxThrow
    /\ pc = "split"
    /\ lines = <<>>
    /\ processedLine = <<>>
    /\ dollarDollarMatches = <<>>
    /\ processedLines = <<>>
    /\ calls = 0
    /\ spans = <<>>
    /\ html = <<>>

\* the line the loop is at
CurLine == lines[Len(processedLines) + 1]

LineState ==
    [out |-> processedLine, dd |-> dollarDollarMatches, calls |-> calls,
     spans |-> spans]

SetLineState(st, next) ==
    /\ processedLine' = st.out
    /\ dollarDollarMatches' = st.dd
    /\ calls' = st.calls
    /\ spans' = st.spans
    /\ pc' = next
    /\ UNCHANGED <<viewVars, appVars, tikzVars, text, throwCall, lines, processedLines, html>>

\* line 58
SplitText ==
    /\ pc = "split"
    /\ lines' = SplitLines(Items(text))
    /\ pc' = "bracket"
    /\ UNCHANGED <<viewVars, appVars, tikzVars, text, throwCall, processedLine, dollarDollarMatches,
                   processedLines, calls, spans, html>>

Bracket ==
    /\ pc = "bracket"
    /\ SetLineState(BracketPass(CurLine, throwCall, calls), "dollardollar")

DollarDollar ==
    /\ pc = "dollardollar"
    /\ SetLineState(DollarDollarPass(LineState, throwCall), "paren")

Paren ==
    /\ pc = "paren"
    /\ SetLineState(ParenPass(LineState, throwCall), "dollar")

Dollar ==
    /\ pc = "dollar"
    /\ SetLineState(DollarPass(LineState, throwCall), "restore")

RestorePlaceholders ==
    /\ pc = "restore"
    /\ SetLineState(RestorePass(LineState), "escape")

EscapePlain ==
    /\ pc = "escape"
    /\ SetLineState(EscapePass(LineState), "push")

\* line 116, and the next iteration or the end of the loop
PushLine ==
    /\ pc = "push"
    /\ processedLines' = Append(processedLines, processedLine)
    /\ pc' = IF Len(processedLines) + 1 < Len(lines) THEN "bracket" ELSE "join"
    /\ UNCHANGED <<viewVars, appVars, tikzVars, text, throwCall, lines, processedLine,
                   dollarDollarMatches, calls, spans, html>>

\* line 119
JoinLines ==
    /\ pc = "join"
    /\ html' = Join(processedLines)
    /\ pc' = "done"
    /\ UNCHANGED <<viewVars, appVars, tikzVars, text, throwCall, lines, processedLine,
                   dollarDollarMatches, processedLines, calls, spans>>

NextSeg ==
    \/ SplitText
    \/ Bracket
    \/ DollarDollar
    \/ Paren
    \/ Dollar
    \/ RestorePlaceholders
    \/ EscapePlain
    \/ PushLine
    \/ JoinLines

SpecSeg == InitSeg /\ [][NextSeg]_vars


-----------------------------------------------------------------------------
(* Claims about processLatex.  They are read when a line is finished       *)
(* (pc = "push"): processedLine is then the output of the line and spans   *)
(* the matches of the four passes on it, in the order they were found.     *)

SpanIds == 1..Len(spans)
SpansOf(pass) == {k \in SpanIds : spans[k].pass = pass}

\* the piece of the text between the first and the last character of a span
Delimited(sp) == SubSeq(Items(text), sp.open, sp.close)

\* the positions of the text that lie in some span
Covered == UNION {Srcs(spans[k].match) : k \in SpanIds}

\* the items of s that come from position p of the text
FromSrc(s, p) == SelectSeq(s, LAMBDA it : it.src = p)

\* C2: the spans the four passes treat as math are pieces of the line itself,
\* pairwise disjoint (none nested in or crossing another), so that with the
\* text between them they make up the line exactly once.
SegmentCoverage ==
    pc = "push" =>
        /\ \A k \in SpanIds : spans[k].match = Delimited(spans[k])
        /\ \A k, l \in SpanIds :
               k # l => \/ spans[k].close < spans[l].open
                        \/ spans[l].close < spans[k].open

\* the text "$$a+b$$ and $c$" rendered: display a+b, " and ", inline c
ExampleDollarsHtml ==
    <<KatexDisplayOpen, "a", "+", "b", SpanClose, " ", "a", "n", "d", " ",
      KatexOpen, "c", SpanClose>>

\* the k-th span is the Rank(k)-th $$ block of the line
Rank(k) == Cardinality({l \in SpansOf("dollardollar") : l <= k})

StartsOf(k) ==
    {i \in 1..Len(processedLine) : processedLine[i] = spans[k].rendered[1]}

\* C14: in the output of a line the rendering of each $$...$$ block stands
\* once, whole, at the place the block had: the characters of the line before
\* the block come before it and those after the block come after it; and no
\* placeholder is left.
PlaceholderRestoration ==
    pc = "push" =>
        /\ \A k \in SpansOf("dollardollar") :
               /\ Cardinality(StartsOf(k)) = 1
               /\ \A i \in StartsOf(k) :
                      LET r == spans[k].rendered
                          e == i + Len(r) - 1
                      IN  /\ e <= Len(processedLine)
                          /\ SubSeq(processedLine, i, e) = r
                          /\ \A j \in 1..Len(processedLine) :
                                 processedLine[j].ch \notin Tags =>
                                     /\ j < i => processedLine[j].src < spans[k].open
                                     /\ j > e => processedLine[j].src > spans[k].close
        /\ ~Occurs(Chars(processedLine), placeholder)

\* C4: a line on which no delimiter pair matches comes out HTML-escaped as a
\* whole.
UnmatchedEscaped ==
    (pc = "push" /\ spans = <<>>) => processedLine = escapeHtml(CurLine)

\* C5: every character of the line outside all math spans is HTML-escaped in
\* the output of the line, also when the line holds math.
LiteralEscaped ==
    pc = "push" =>
        \A p \in Srcs(CurLine) \ Covered :
            FromSrc(processedLine, p) = EscapeChar(text[p], p)

\* a delimited piece without its delimiters ($ is one character, the others two)
Inner(d, pass) ==
    IF pass = "dollar" THEN SubSeq(d, 2, Len(d) - 1) ELSE SubSeq(d, 3, Len(d) - 2)

\* s with the first occurrence of the piece a replaced by b is t
ReplacedIn(s, a, b, t) ==
    \E i \in 1..(Len(s) - Len(a) + 1) :
        /\ SubSeq(s, i, i + Len(a) - 1) = a
        /\ t = SubSeq(s, 1, i - 1) \o b \o SubSeq(s, i + Len(a), Len(s))

\* C6: when the renderer throws on a segment, the output of the line holds the
\* error span of the original delimited text where the rendering of the
\* segment would stand, and is otherwise the output without the failure.
FailureIsLocal ==
    pc = "push" =>
        \A k \in SpanIds :
            spans[k].threw =>
                ReplacedIn(processedLine,
                           ErrorSpan(Delimited(spans[k])),
                           KatexRender(Trim(Inner(Delimited(spans[k]),
                                                  spans[k].pass)),
                                       spans[k].displayMode, spans[k].open),
                           ProcessLine(CurLine, 0, 0).out)


-----------------------------------------------------------------------------
(* normalizeToAscii.  A string is here a sequence of code points, so that  *)
(* the character ranges of the regular expressions are ranges of numbers.  *)

\* const replacements of part_001: its entries in the order of Object.entries,
\* each <<code point of the key, code points of the replacement>>
replacements_001 ==
    << <<949, <<92, 118, 97, 114, 101, 112, 115, 105, 108, 111, 110>>>>,   \* line 72: U+03B5 -> \varepsilon
       <<8594, <<92, 116, 111>>>>,   \* line 73: U+2192 -> \to
       <<8592, <<92, 108, 101, 102, 116, 97, 114, 114, 111, 119>>>>,   \* line 74: U+2190 -> \leftarrow
       <<8805, <<92, 103, 101, 113>>>>,   \* line 75: U+2265 -> \geq
       <<8804, <<92, 108, 101, 113>>>>,   \* line 76: U+2264 -> \leq
       <<8800, <<92, 110, 101, 113>>>>,   \* line 77: U+2260 -> \neq
       <<8776, <<92, 97, 112, 112, 114, 111, 120>>>>,   \* line 78: U+2248 -> \approx
       <<177, <<92, 112, 109>>>>,   \* line 79: U+00B1 -> \pm
       <<215, <<92, 116, 105, 109, 101, 115>>>>,   \* line 80: U+00D7 -> \times
       <<247, <<92, 100, 105, 118>>>>,   \* line 81: U+00F7 -> \div
       <<8734, <<92, 105, 110, 102, 116, 121>>>>,   \* line 82: U+221E -> \infty
       <<8721, <<92, 115, 117, 109>>>>,   \* line 83: U+2211 -> \sum
       <<8719, <<92, 112, 114, 111, 100>>>>,   \* line 84: U+220F -> \prod
       <<8747, <<92, 105, 110, 116>>>>,   \* line 85: U+222B -> \int
       <<8730, <<92, 115, 113, 114, 116>>>>,   \* line 86: U+221A -> \sqrt
       <<945, <<92, 97, 108, 112, 104, 97>>>>,   \* line 87: U+03B1 -> \alpha
       <<946, <<92, 98, 101, 116, 97>>>>,   \* line 88: U+03B2 -> \beta
       <<947, <<92, 103, 97, 109, 109, 97>>>>,   \* line 89: U+03B3 -> \gamma
       <<948, <<92, 100, 101, 108, 116, 97>>>>,   \* line 90: U+03B4 -> \delta
       <<952, <<92, 116, 104, 101, 116, 97>>>>,   \* line 91: U+03B8 -> \theta
       <<955, <<92, 108, 97, 109, 98, 100, 97>>>>,   \* line 92: U+03BB -> \lambda
       <<956, <<92, 109, 117>>>>,   \* line 93: U+03BC -> \mu
       <<960, <<92, 112, 105>>>>,   \* line 94: U+03C0 -> \pi
       <<963, <<92, 115, 105, 103, 109, 97>>>>,   \* line 95: U+03C3 -> \sigma
       <<966, <<92, 112, 104, 105>>>>,   \* line 96: U+03C6 -> \phi
       <<969, <<92, 111, 109, 101, 103, 97>>>>,   \* line 97: U+03C9 -> \omega
       <<916, <<92, 68, 101, 108, 116, 97>>>>,   \* line 98: U+0394 -> \Delta
       <<915, <<92, 71, 97, 109, 109, 97>>>>,   \* line 99: U+0393 -> \Gamma
       <<923, <<92, 76, 97, 109, 98, 100, 97>>>>,   \* line 100: U+039B -> \Lambda
       <<931, <<92, 83, 105, 103, 109, 97>>>>,   \* line 101: U+03A3 -> \Sigma
       <<937, <<92, 79, 109, 101, 103, 97>>>>,   \* line 102: U+03A9 -> \Omega
       <<934, <<92, 80, 104, 105>>>>,   \* line 103: U+03A6 -> \Phi
       <<936, <<92, 80, 115, 105>>>>,   \* line 104: U+03A8 -> \Psi
       <<8712, <<92, 105, 110>>>>,   \* line 105: U+2208 -> \in
       <<8713, <<92, 110, 111, 116, 105, 110>>>>,   \* line 106: U+2209 -> \notin
       <<8834, <<92, 115, 117, 98, 115, 101, 116>>>>,   \* line 107: U+2282 -> \subset
       <<8835, <<92, 115, 117, 112, 115, 101, 116>>>>,   \* line 108: U+2283 -> \supset
       <<8838, <<92, 115, 117, 98, 115, 101, 116, 101, 113>>>>,   \* line 109: U+2286 -> \subseteq
       <<8839, <<92, 115, 117, 112, 115, 101, 116, 101, 113>>>>,   \* line 110: U+2287 -> \supseteq
       <<8746, <<92, 99, 117, 112>>>>,   \* line 111: U+222A -> \cup
       <<8745, <<92, 99, 97, 112>>>>,   \* line 112: U+2229 -> \cap
       <<8709, <<92, 101, 109, 112, 116, 121, 115, 101, 116>>>>,   \* line 113: U+2205 -> \emptyset
       <<8743, <<92, 119, 101, 100, 103, 101>>>>,   \* line 114: U+2227 -> \wedge
       <<8744, <<92, 118, 101, 101>>>>,   \* line 115: U+2228 -> \vee
       <<172, <<92, 110, 101, 103>>>>,   \* line 116: U+00AC -> \neg
       <<8704, <<92, 102, 111, 114, 97, 108, 108>>>>,   \* line 117: U+2200 -> \forall
       <<8707, <<92, 101, 120, 105, 115, 116, 115>>>>,   \* line 118: U+2203 -> \exists
       <<8658, <<92, 82, 105, 103, 104, 116, 97, 114, 114, 111, 119>>>>,   \* line 119: U+21D2 -> \Rightarrow
       <<8656, <<92, 76, 101, 102, 116, 97, 114, 114, 111, 119>>>>,   \* line 120: U+21D0 -> \Leftarrow
       <<8660, <<92, 76, 101, 102, 116, 114, 105, 103, 104, 116, 97, 114, 114, 111, 119>>>>,   \* line 121: U+21D4 -> \Leftrightarrow
       <<8853, <<92, 111, 112, 108, 117, 115>>>>,   \* line 122: U+2295 -> \oplus
       <<8855, <<92, 111, 116, 105, 109, 101, 115>>>>,   \* line 123: U+2297 -> \otimes
       <<8869, <<92, 112, 101, 114, 112>>>>,   \* line 124: U+22A5 -> \perp
       <<8741, <<92, 112, 97, 114, 97, 108, 108, 101, 108>>>>,   \* line 125: U+2225 -> \parallel
       <<8736, <<92, 97, 110, 103, 108, 101>>>> >>   \* line 126: U+2220 -> \angle

\* const replacements of part_002: its entries in the order of Object.entries,
\* each <<code point of the key, code points of the replacement>>
replacements_002 ==
    << <<231, <<99>>>>,   \* line 26: U+00E7 -> c
       <<199, <<67>>>>,   \* line 27: U+00C7 -> C
       <<227, <<97>>>>,   \* line 28: U+00E3 -> a
       <<195, <<65>>>>,   \* line 29: U+00C3 -> A
       <<225, <<97>>>>,   \* line 30: U+00E1 -> a
       <<193, <<65>>>>,   \* line 31: U+00C1 -> A
       <<224, <<97>>>>,   \* line 32: U+00E0 -> a
       <<192, <<65>>>>,   \* line 33: U+00C0 -> A
       <<226, <<97>>>>,   \* line 34: U+00E2 -> a
       <<194, <<65>>>>,   \* line 35: U+00C2 -> A
       <<233, <<101>>>>,   \* line 36: U+00E9 -> e
       <<201, <<69>>>>,   \* line 37: U+00C9 -> E
       <<234, <<101>>>>,   \* line 38: U+00EA -> e
       <<202, <<69>>>>,   \* line 39: U+00CA -> E
       <<237, <<105>>>>,   \* line 40: U+00ED -> i
       <<205, <<73>>>>,   \* line 41: U+00CD -> I
       <<243, <<111>>>>,   \* line 42: U+00F3 -> o
       <<211, <<79>>>>,   \* line 43: U+00D3 -> O
       <<244, <<111>>>>,   \* line 44: U+00F4 -> o
       <<212, <<79>>>>,   \* line 45: U+00D4 -> O
       <<245, <<111>>>>,   \* line 46: U+00F5 -> o
       <<213, <<79>>>>,   \* line 47: U+00D5 -> O
       <<250, <<117>>>>,   \* line 48: U+00FA -> u
       <<218, <<85>>>>,   \* line 49: U+00DA -> U
       <<252, <<117>>>>,   \* line 50: U+00FC -> u
       <<220, <<85>>>>,   \* line 51: U+00DC -> U
       <<241, <<110>>>>,   \* line 52: U+00F1 -> n
       <<209, <<78>>>>,   \* line 53: U+00D1 -> N
       <<949, <<92, 118, 97, 114, 101, 112, 115, 105, 108, 111, 110>>>>,   \* line 56: U+03B5 -> \varepsilon
       <<8594, <<92, 116, 111>>>>,   \* line 57: U+2192 -> \to
       <<8592, <<92, 108, 101, 102, 116, 97, 114, 114, 111, 119>>>>,   \* line 58: U+2190 -> \leftarrow
       <<8805, <<92, 103, 101, 113>>>>,   \* line 59: U+2265 -> \geq
       <<8804, <<92, 108, 101, 113>>>>,   \* line 60: U+2264 -> \leq
       <<8800, <<92, 110, 101, 113>>>>,   \* line 61: U+2260 -> \neq
       <<8776, <<92, 97, 112, 112, 114, 111, 120>>>>,   \* line 62: U+2248 -> \approx
       <<177, <<92, 112, 109>>>>,   \* line 63: U+00B1 -> \pm
       <<215, <<92, 116, 105, 109, 101, 115>>>>,   \* line 64: U+00D7 -> \times
       <<247, <<92, 100, 105, 118>>>>,   \* line 65: U+00F7 -> \div
       <<8734, <<92, 105, 110, 102, 116, 121>>>>,   \* line 66: U+221E -> \infty
       <<8721, <<92, 115, 117, 109>>>>,   \* line 67: U+2211 -> \sum
       <<8719, <<92, 112, 114, 111, 100>>>>,   \* line 68: U+220F -> \prod
       <<8747, <<92, 105, 110, 116>>>>,   \* line 69: U+222B -> \int
       <<8730, <<92, 115, 113, 114, 116>>>>,   \* line 70: U+221A -> \sqrt
       <<945, <<92, 97, 108, 112, 104, 97>>>>,   \* line 71: U+03B1 -> \alpha
       <<946, <<92, 98, 101, 116, 97>>>>,   \* line 72: U+03B2 -> \beta
       <<947, <<92, 103, 97, 109, 109, 97>>>>,   \* line 73: U+03B3 -> \gamma
       <<948, <<92, 100, 101, 108, 116, 97>>>>,   \* line 74: U+03B4 -> \delta
       <<952, <<92, 116, 104, 101, 116, 97>>>>,   \* line 75: U+03B8 -> \theta
       <<955, <<92, 108, 97, 109, 98, 100, 97>>>>,   \* line 76: U+03BB -> \lambda
       <<956, <<92, 109, 117>>>>,   \* line 77: U+03BC -> \mu
       <<960, <<92, 112, 105>>>>,   \* line 78: U+03C0 -> \pi
       <<963, <<92, 115, 105, 103, 109, 97>>>>,   \* line 79: U+03C3 -> \sigma
       <<966, <<92, 112, 104, 105>>>>,   \* line 80: U+03C6 -> \phi
       <<969, <<92, 111, 109, 101, 103, 97>>>>,   \* line 81: U+03C9 -> \omega
       <<916, <<92, 68, 101, 108, 116, 97>>>>,   \* line 82: U+0394 -> \Delta
       <<915, <<92, 71, 97, 109, 109, 97>>>>,   \* line 83: U+0393 -> \Gamma
       <<923, <<92, 76, 97, 109, 98, 100, 97>>>>,   \* line 84: U+039B -> \Lambda
       <<931, <<92, 83, 105, 103, 109, 97>>>>,   \* line 85: U+03A3 -> \Sigma
       <<937, <<92, 79, 109, 101, 103, 97>>>>,   \* line 86: U+03A9 -> \Omega
       <<934, <<92, 80, 104, 105>>>>,   \* line 87: U+03A6 -> \Phi
       <<936, <<92, 80, 115, 105>>>>,   \* line 88: U+03A8 -> \Psi
       <<8712, <<92, 105, 110>>>>,   \* line 89: U+2208 -> \in
       <<8713, <<92, 110, 111, 116, 105, 110>>>>,   \* line 90: U+2209 -> \notin
       <<8834, <<92, 115, 117, 98, 115, 101, 116>>>>,   \* line 91: U+2282 -> \subset
       <<8835, <<92, 115, 117, 112, 115, 101, 116>>>>,   \* line 92: U+2283 -> \supset
       <<8838, <<92, 115, 117, 98, 115, 101, 116, 101, 113>>>>,   \* line 93: U+2286 -> \subseteq
       <<8839, <<92, 115, 117, 112, 115, 101, 116, 101, 113>>>>,   \* line 94: U+2287 -> \supseteq
       <<8746, <<92, 99, 117, 112>>>>,   \* line 95: U+222A -> \cup
       <<8745, <<92, 99, 97, 112>>>>,   \* line 96: U+2229 -> \cap
       <<8709, <<92, 101, 109, 112, 116, 121, 115, 101, 116>>>>,   \* line 97: U+2205 -> \emptyset
       <<8743, <<92, 119, 101, 100, 103, 101>>>>,   \* line 98: U+2227 -> \wedge
       <<8744, <<92, 118, 101, 101>>>>,   \* line 99: U+2228 -> \vee
       <<172, <<92, 110, 101, 103>>>>,   \* line 100: U+00AC -> \neg
       <<8704, <<92, 102, 111, 114, 97, 108, 108>>>>,   \* line 101: U+2200 -> \forall
       <<8707, <<92, 101, 120, 105, 115, 116, 115>>>>,   \* line 102: U+2203 -> \exists
       <<8658, <<92, 82, 105, 103, 104, 116, 97, 114, 114, 111, 119>>>>,   \* line 103: U+21D2 -> \Rightarrow
       <<8656, <<92, 76, 101, 102, 116, 97, 114, 114, 111, 119>>>>,   \* line 104: U+21D0 -> \Leftarrow
       <<8660, <<92, 76, 101, 102, 116, 114, 105, 103, 104, 116, 97, 114, 114, 111, 119>>>>,   \* line 105: U+21D4 -> \Leftrightarrow
       <<8853, <<92, 111, 112, 108, 117, 115>>>>,   \* line 106: U+2295 -> \oplus
       <<8855, <<92, 111, 116, 105, 109, 101, 115>>>>,   \* line 107: U+2297 -> \otimes
       <<8869, <<92, 112, 101, 114, 112>>>>,   \* line 108: U+22A5 -> \perp
       <<8741, <<92, 112, 97, 114, 97, 108, 108, 101, 108>>>>,   \* line 109: U+2225 -> \parallel
       <<8736, <<92, 97, 110, 103, 108, 101>>>> >>   \* line 110: U+2220 -> \angle

\* the canonical decomposition of a code point (UnicodeData), for the code
\* points of the model: the keys of the two maps and NormChars
Decomposition(c) ==
    CASE c = 192 -> <<65, 768>>
      [] c = 193 -> <<65, 769>>
      [] c = 194 -> <<65, 770>>
      [] c = 195 -> <<65, 771>>
      [] c = 199 -> <<67, 807>>
      [] c = 201 -> <<69, 769>>
      [] c = 202 -> <<69, 770>>
      [] c = 205 -> <<73, 769>>
      [] c = 209 -> <<78, 771>>
      [] c = 211 -> <<79, 769>>
      [] c = 212 -> <<79, 770>>
      [] c = 213 -> <<79, 771>>
      [] c = 218 -> <<85, 769>>
      [] c = 220 -> <<85, 776>>
      [] c = 224 -> <<97, 768>>
      [] c = 225 -> <<97, 769>>
      [] c = 226 -> <<97, 770>>
      [] c = 227 -> <<97, 771>>
      [] c = 231 -> <<99, 807>>
      [] c = 233 -> <<101, 769>>
      [] c = 234 -> <<101, 770>>
      [] c = 237 -> <<105, 769>>
      [] c = 241 -> <<110, 771>>
      [] c = 243 -> <<111, 769>>
      [] c = 244 -> <<111, 770>>
      [] c = 245 -> <<111, 771>>
      [] c = 250 -> <<117, 769>>
      [] c = 252 -> <<117, 776>>
      [] c = 8713 -> <<8712, 824>>
      [] c = 8800 -> <<61, 824>>
      [] OTHER -> <<c>>

\* the canonical combining class of a code point (0: a starter)
CombiningClass(c) ==
    CASE c = 768 -> 230
      [] c = 769 -> 230
      [] c = 770 -> 230
      [] c = 771 -> 230
      [] c = 776 -> 230
      [] c = 807 -> 202
      [] c = 824 -> 1
      [] c = 1425 -> 220
      [] c = 8400 -> 230
      [] OTHER -> 0

\* one step of the canonical ordering: the first pair of neighbours out of
\* order (a mark of a higher class before a mark of a lower one) is swapped
RECURSIVE CanonicalOrder(_)
CanonicalOrder(s) ==
    LET bad == {i \in 1..(Len(s) - 1) :
                   /\ CombiningClass(s[i + 1]) > 0
                   /\ CombiningClass(s[i]) > CombiningClass(s[i + 1])}
    IN  IF bad = {} THEN s
        ELSE LET i == Min(bad)
             IN  CanonicalOrder([s EXCEPT ![i] = s[i + 1], ![i + 1] = s[i]])

\* String.prototype.normalize('NFD')
NFD(s) == CanonicalOrder(Flatten([i \in 1..Len(s) |-> Decomposition(s[i])]))

\* /[^\x00-\x7F]/.test(text)
hasNonAsciiChars(s) == \E i \in 1..Len(s) : s[i] > 127

\* .replace(/[\u0300-\u036f]/g, '')
StripMarks(s) == SelectSeq(s, LAMBDA c : ~(c >= 768 /\ c <= 879))

\* .replace(/[\u201A\uFF0C]/g, ',')
AsciiCommas(s) == [i \in 1..Len(s) |-> IF s[i] \in {8218, 65292} THEN 44 ELSE s[i]]

\* normalized.replace(new RegExp(unicode, 'g'), ascii)
ReplaceKey(s, unicode, ascii) ==
    Flatten([i \in 1..Len(s) |-> IF s[i] = unicode THEN ascii ELSE <<s[i]>>])

\* for (const [unicode, ascii] of Object.entries(replacements)) ...
\* the entries from the k-th on applied to s one after the other, in their
\* order; an entry whose key does not stand in the string leaves it as it is,
\* so the loop goes on at the next entry whose key does
RECURSIVE ApplyFrom(_, _, _)
ApplyFrom(s, entries, k) ==
    LET hits == {j \in k..Len(entries) :
                    \E i \in 1..Len(s) : s[i] = entries[j][1]}
    IN  IF hits = {} THEN s
        ELSE LET j == Min(hits)
             IN  ApplyFrom(ReplaceKey(s, entries[j][1], entries[j][2]),
                           entries, j + 1)

ApplyReplacements(s, entries) == ApplyFrom(s, entries, 1)

\* part_001 with the map entries applied in the order given
Normalize_001(s, entries) ==
    IF ~hasNonAsciiChars(s) THEN s
    ELSE ApplyReplacements(AsciiCommas(StripMarks(NFD(s))), entries)

\* normalizeToAscii of part_001 (the variant that follows fixCommasInMath)
normalizeToAscii_001(s) == Normalize_001(s, replacements_001)

\* normalizeToAscii of part_002
normalizeToAscii_002(s) == ApplyReplacements(s, replacements_002)

normalizeToAscii(v, s) ==
    IF v = 1 THEN normalizeToAscii_001(s) ELSE normalizeToAscii_002(s)

MaxNormLen == 3    \* code points in a text given to the normalizer

\* a, comma, sharp s, e acute, combining acute, combining grapheme joiner,
\* combining left harpoon above, Hebrew accent etnahta, low-9 quotation mark,
\* fullwidth comma, alpha, greater-or-equal, not-equal, not-an-element-of
NormChars ==
    {97, 44, 223, 233, 769, 847, 8400, 1425, 8218, 65292, 945, 8805, 8800, 8713}

\* "alpha >= beta" written with the three symbols
ExampleSymbols == <<945, 32, 8805, 32, 946>>
\* "\alpha \geq \beta"
ExampleSymbolsAscii ==
    <<92, 97, 108, 112, 104, 97, 32, 92, 103, 101, 113, 32, 92, 98, 101, 116, 97>>

NormTexts ==
    UNION {[1..k -> NormChars] : k \in 0..MaxNormLen} \cup {ExampleSymbols}

InitNorm ==
    /\ AppIdle
    /\ LineIdle
    /\ TikzIdle
    /\ ViewIdle
    /\ text \in NormTexts
    /\ pc = "call"

Normalize(v) ==
    /\ pc = "call"
    /\ variant' = v
    /\ normalizedCode' = normalizeToAscii(v, text)
    /\ pc' = "once"
    /\ UNCHANGED <<viewVars, appVars, lineVars, text, renormalized, fixedCommas>>

\* normalizeToAscii of part_001 is called
Normalize001 == Normalize(1)

\* normalizeToAscii of part_002 is called
Normalize002 == Normalize(2)

\* the same normalizer is called on its own result
Renormalize ==
    /\ pc = "once"
    /\ renormalized' = normalizeToAscii(variant, normalizedCode)
    /\ pc' = "twice"
    /\ UNCHANGED <<viewVars, appVars, lineVars, text, variant, normalizedCode, fixedCommas>>

NextNorm ==
    \/ Normalize001
    \/ Normalize002
    \/ Renormalize

SpecNorm == InitNorm /\ [][NextNorm]_vars

\* C7: the string returned by normalizeToAscii holds ASCII characters only.
AsciiOnly ==
    pc \in {"once", "twice"} =>
        \A i \in 1..Len(normalizedCode) : normalizedCode[i] <= 127

\* C8: normalizing the result again changes nothing, and an ASCII text is
\* returned as it is.
NormalizerIdempotent ==
    /\ pc = "twice" => renormalized = normalizedCode
    /\ (pc \in {"once", "twice"} /\ ~hasNonAsciiChars(text))
           => normalizedCode = text

Replacements(v) == IF v = 1 THEN replacements_001 ELSE replacements_002

\* the replacement of the key c in the map of variant v, <<>> when c is no key
CommandOf(v, c) ==
    LET es == Replacements(v)
        hits == {k \in 1..Len(es) : es[k][1] = c}
    IN  IF hits = {} THEN <<>> ELSE es[Min(hits)][2]

Reverse(s) == [i \in 1..Len(s) |-> s[Len(s) + 1 - i]]

\* the normalizer of variant v with the map entries applied in reverse order
NormalizeReversed(v, s) ==
    IF v = 1 THEN Normalize_001(s, Reverse(replacements_001))
    ELSE ApplyReplacements(s, Reverse(replacements_002))

\* C9: every occurrence of a key of the map is replaced by the command of that
\* key, in place (what stands before and after it is normalized by itself);
\* the order of the map entries does not matter; "alpha >= beta" gives
\* "\alpha \geq \beta".
SymbolMapping ==
    pc \in {"once", "twice"} =>
        /\ \A i \in 1..Len(text) :
               CommandOf(variant, text[i]) # <<>> =>
                   normalizedCode =
                       normalizeToAscii(variant, SubSeq(text, 1, i - 1))
                       \o CommandOf(variant, text[i])
                       \o normalizeToAscii(variant, SubSeq(text, i + 1, Len(text)))
        /\ normalizedCode = NormalizeReversed(variant, text)
        /\ text = ExampleSymbols => normalizedCode = ExampleSymbolsAscii


-----------------------------------------------------------------------------
(* fixCommasInMath *)

\* /\$([^$]+)\$/g: the greedy group takes every character up to the next $
CommaRegex ==
    [pass |-> "comma", open |-> <<"$">>, close |-> <<"$">>,
     minLen |-> 1, exclude |-> {"$"}, displayMode |-> FALSE, protect |-> FALSE]

\* '\\text{,}'
TextComma == <<"\\", "t", "e", "x", "t", "{", ",", "}">>

\* content.replace(/,/g, '\\text{,}')
ReplaceCommas(content) ==
    Flatten([k \in 1..Len(content) |->
                IF content[k] = "," THEN TextComma ELSE <<content[k]>>])

\* text.replace(/\$([^$]+)\$/g, (_match, content) => `$${fixed}$`) from i on
RECURSIVE FixFrom(_, _, _)
FixFrom(s, i, out) ==
    IF i > Len(s) THEN out
    ELSE LET e == MatchEnd(Items(s), i, CommaRegex) IN
         IF e = 0 THEN FixFrom(s, i + 1, Append(out, s[i]))
         ELSE FixFrom(s, e + 1,
                      out \o <<"$">> \o ReplaceCommas(SubSeq(s, i + 1, e - 1))
                          \o <<"$">>)

fixCommasInMath(s) == FixFrom(s, 1, <<>>)

MaxCommaLen == 6   \* characters in a text given to fixCommasInMath

CommaChars == {"$", ",", "a", "\n"}

\* "$a,b$" and what it becomes
ExampleComma == <<"$", "a", ",", "b", "$">>
ExampleCommaFixed ==
    <<"$", "a", "\\", "t", "e", "x", "t", "{", ",", "}", "b", "$">>
\* a display block followed by an inline span: "$$x$$ $a,b$"
ExampleAfterDisplay ==
    <<"$", "$", "x", "$", "$", " ", "$", "a", ",", "b", "$">>

\* commas in a display block, in a bracket block and in plain text:
\* "$$a,b$$", "\[a,b\]", "a,b"
ExampleDisplayComma == <<"$", "$", "a", ",", "b", "$", "$">>
ExampleBracketComma == <<"\\", "[", "a", ",", "b", "\\", "]">>
ExamplePlainComma == <<"a", ",", "b">>

CommaTexts ==
    UNION {[1..k -> CommaChars] : k \in 0..MaxCommaLen}
    \cup {ExampleComma, ExampleAfterDisplay, ExampleDisplayComma,
          ExampleBracketComma, ExamplePlainComma}

InitComma ==
    /\ AppIdle
    /\ LineIdle
    /\ TikzIdle
    /\ ViewIdle
    /\ text \in CommaTexts
    /\ pc = "call"

\* line 156: fixCommasInMath(trimmed)
FixCommas ==
    /\ pc = "call"
    /\ fixedCommas' = fixCommasInMath(text)
    /\ pc' = "done"
    /\ UNCHANGED <<viewVars, appVars, lineVars, text, variant, normalizedCode, renormalized>>

NextComma == FixCommas

SpecComma == InitComma /\ [][NextComma]_vars

\* the inline spans of s: two $ with a non-empty run without $ between them,
\* the first of which opens a span (the $ before it pair off: their number is
\* even, whether they stand alone or two by two as $$)
InlineSpans(s) ==
    {ij \in (1..Len(s)) \X (1..Len(s)) :
        /\ s[ij[1]] = "$"
        /\ s[ij[2]] = "$"
        /\ ij[2] > ij[1] + 1
        /\ \A k \in (ij[1] + 1)..(ij[2] - 1) : s[k] # "$"
        /\ Cardinality({k \in 1..(ij[1] - 1) : s[k] = "$"}) % 2 = 0}

\* C10: every inline $...$ span comes out with each of its commas replaced by
\* \text{,} and nothing else in it changed; "$a,b$" becomes "$a\text{,}b$".
CommaFix ==
    pc = "done" =>
        /\ \A ij \in InlineSpans(text) :
               Occurs(fixedCommas,
                      <<"$">> \o ReplaceCommas(SubSeq(text, ij[1] + 1, ij[2] - 1))
                          \o <<"$">>)
        /\ text = ExampleComma => fixedCommas = ExampleCommaFixed

\* the commas of s that stand inside an inline span
InsideCommas(s) ==
    {i \in 1..Len(s) :
        /\ s[i] = ","
        /\ \E ij \in InlineSpans(s) : ij[1] < i /\ i < ij[2]}

\* s with the commas at the positions K written \text{,}
ReplacedAt(s, K) ==
    Flatten([i \in 1..Len(s) |-> IF i \in K THEN TextComma ELSE <<s[i]>>])

\* C11: the result is the text with commas of inline spans only written
\* \text{,}: a comma in a $$...$$ block, in a \[...\] block or in plain text
\* comes out as it went in, and so does every other character.
CommaFrame ==
    pc = "done" =>
        \E K \in SUBSET InsideCommas(text) : fixedCommas = ReplacedAt(text, K)

------------------------------------------------------------------------------
(* LatexPreview: the { html, error } computed by useMemo *)

\* lines 61-117 for the lines from the k-th on: the renderer calls are counted
\* across the lines
RECURSIVE LinesFrom(_, _, _, _, _)
LinesFrom(ls, k, tc, n, outs) ==
    IF k > Len(ls) THEN outs
    ELSE LET st == ProcessLine(ls[k], tc, n)
         IN  LinesFrom(ls, k + 1, tc, st.calls, Append(outs, st.out))

\* processLatex(text) when the tc-th renderer call throws (0: none does)
processLatex(t, tc) ==
    Chars(Join(LinesFrom(SplitLines(Items(t)), 1, tc, 0, <<>>)))

\* !value.trim()
Blank(t) == Trim(Items(t)) = <<>>

\* err instanceof Error ? err.message : 'Erro desconhecido ao renderizar LaTeX'
ErrorMessages ==
    {"Maximum call stack size exceeded", "", "Erro desconhecido ao renderizar LaTeX"}

\* the fragments the values given to LatexPreview are made of
PreviewFrags ==
    {<<" ">>, <<"\n">>, <<"\t">>, <<"$">>, <<"a">>, <<"<">>, <<"\\", "[">>,
     <<"\\", "]">>}

PreviewTexts == TextsOf(PreviewFrags, MaxFrags)

InitPreview ==
    /\ AppIdle
    /\ TikzIdle
    /\ FrameIdle
    /\ result = [html |-> Null, error |-> Null]
    /\ raised = FALSE
    /\ text \in PreviewTexts
    /\ throwCall \in 0..MaxThrow
    /\ pc = "memo"
    /\ lines = <<>>
    /\ processedLine = <<>>
    /\ dollarDollarMatches = <<>>
    /\ processedLines = <<>>
    /\ calls = 0
    /\ spans = <<>>
    /\ html = <<>>

\* lines 12-14
RenderBlank ==
    /\ pc = "memo"
    /\ Blank(text)
    /\ result' = [html |-> Null, error |-> Null]
    /\ pc' = "done"
    /\ UNCHANGED <<appVars, tikzVars, lineVars, text, raised, frameVars>>

\* lines 16-19: processLatex returns
RenderHtml ==
    /\ pc = "memo"
    /\ ~Blank(text)
    /\ raised' = FALSE
    /\ result' = [html |-> Some(processLatex(text, throwCall)), error |-> Null]
    /\ pc' = "done"
    /\ UNCHANGED <<appVars, tikzVars, lineVars, text, frameVars>>

\* a catch branch that keeps an empty html beside the message
RenderErrorWithHtml ==
    /\ pc = "memo"
    /\ ~Blank(text)
    /\ raised' = TRUE
    /\ \E m \in ErrorMessages : result' = [html |-> Some(<<>>), error |-> Some(m)]
    /\ pc' = "done"
    /\ UNCHANGED <<appVars, tikzVars, lineVars, text, frameVars>>

\* lines 20-23: an exception leaves processLatex (its own statements raise
\* none and it catches those of the renderer: an error of the engine, such as
\* a RangeError)
RenderError ==
    /\ pc = "memo"
    /\ ~Blank(text)
    /\ raised' = TRUE
    /\ \E m \in ErrorMessages : result' = [html |-> Null, error |-> Some(m)]
    /\ pc' = "done"
    /\ UNCHANGED <<appVars, tikzVars, lineVars, text, frameVars>>

NextPreview ==
    \/ RenderBlank
    \/ RenderHtml
    \/ RenderError

SpecPreview == InitPreview /\ [][NextPreview]_vars

\* C13 as stated: whatever the value, exactly one of html and error is not
\* null; an exception gives html null and a message, a return gives error null
\* and the html.
RenderResult ==
    pc = "done" =>
        /\ (result.html = Null) # (result.error = Null)
        /\ raised => result.html = Null /\ result.error # Null
        /\ ~raised => result.error = Null /\ result.html # Null

\* C13, amended: a blank value gives html and error both null; any other
\* value gives exactly one of them not null: html null and a message when an
\* exception left processLatex, error null and the html of processLatex when
\* it returned.
RenderResultNonBlank ==
    pc = "done" =>
        IF Blank(text)
        THEN result = [html |-> Null, error |-> Null]
        ELSE /\ (result.html = Null) # (result.error = Null)
             /\ raised => result.html = Null /\ result.error \in {Some(m) : m \in ErrorMessages}
             /\ ~raised => /\ result.error = Null
                           /\ result.html = Some(processLatex(text, throwCall))

\* a value with math whose rendering failed in one segment only: html is set
RenderResultWitness ==
    /\ pc = "done"
    /\ ~raised
    /\ throwCall = 1
    /\ result.error = Null
    /\ result.html # Null
    /\ \E i \in 1..Len(result.html[1]) : result.html[1][i] = KatexErrorOpen

------------------------------------------------------------------------------
(* TikzPreview: the script of the diagram frame.  scale is kept in            *)
(* thousandths (1000 is the factor 1), lengths in pixels, times in ms.        *)

minScale == 500        \* const minScale = 0.5
maxScale == 50000      \* const maxScale = 50
MinFitScale == 1500    \* Math.max(1.5, ...)
Padding == 40          \* const padding = 40
MinAvailable == 100    \* Math.max(100, ...)
PollPeriod == 100      \* setInterval(..., 100)
FitDelay == 50         \* setTimeout(..., 50)
PollTimeout == 5000    \* setTimeout(() => clearInterval(checkSVG), 5000)

Max2(a, b) == IF a >= b THEN a ELSE b
Min2(a, b) == IF a <= b THEN a ELSE b

\* a || b || c on numbers
FirstNonZero(a, b, c) == IF a # 0 THEN a ELSE IF b # 0 THEN b ELSE c

\* lines 321-330: svgWidth and svgHeight (k = 1, 2)
SvgSize(k) ==
    IF svg.throws THEN svg.rect[k]
    ELSE FirstNonZero(svg.bbox[k], svg.client[k], svg.rect[k])

\* lines 481-483 and 496-497: what the size poll tests
SeenSized ==
    /\ svg.present
    /\ IF svg.throws THEN svg.rect[1] > 0 /\ svg.rect[2] > 0
       ELSE svg.bbox[1] > 0 /\ svg.bbox[2] > 0

\* lines 309-311
updateTransform == transform' = <<panX', panY', scale'>>

\* lines 339-346
TargetScale ==
    LET availableWidth == Max2(MinAvailable, containerRect[1] - Padding)
        availableHeight == Max2(MinAvailable, containerRect[2] - Padding)
        scaleX == (availableWidth * 1000) \div SvgSize(1)
        scaleY == (availableHeight * 1000) \div SvgSize(2)
    IN  (((Min2(scaleX, scaleY) * 95) \div 100) * 15) \div 10

\* lines 313-359, called when hasFitToView is has
fitToView(has) ==
    IF ~svg.present
    THEN /\ hasFitToView' = has
         /\ UNCHANGED <<zoomVars, fits>>
    ELSE IF SvgSize(1) = 0 \/ SvgSize(2) = 0
    THEN /\ hasFitToView' = has
         /\ UNCHANGED <<scale, panX, panY, fits>>
         /\ updateTransform
    ELSE /\ scale' = Max2(MinFitScale, Min2(maxScale, TargetScale))
         /\ panX' = 0
         /\ panY' = 0
         /\ updateTransform
         /\ hasFitToView' = TRUE
         /\ fits' = fits + 1

\* zoom without the two limits
zoomUnclamped(num, den, centred, centerX, centerY) ==
    /\ scale' = (scale * num) \div den
    /\ panX' = IF centred /\ scale > 0
               THEN centerX - ((centerX - panX) * scale') \div scale ELSE panX
    /\ panY' = IF centred /\ scale > 0
               THEN centerY - ((centerY - panY) * scale') \div scale ELSE panY
    /\ updateTransform

\* lines 361-375: zoom(factor, centerX, centerY) with factor = num / den; the
\* container fills the frame, so rect.left and rect.top are 0
zoom(num, den, centred, centerX, centerY) ==
    /\ scale' = Max2(minScale, Min2(maxScale, (scale * num) \div den))
    /\ panX' = IF centred
               THEN centerX - ((centerX - panX) * scale') \div scale ELSE panX
    /\ panY' = IF centred
               THEN centerY - ((centerY - panY) * scale') \div scale ELSE panY
    /\ updateTransform

\* lines 377-380
resetZoom == fitToView(FALSE)

MaxEvents == 2     \* user events in one run of the script
MaxNow == 5200     \* the clock stops after the timeout has passed

\* where the pointer or the fingers may be, and how far apart two fingers
Points == {[x |-> 0, y |-> 0], [x |-> 100, y |-> 50]}
Distances == {0, 100, 200}

\* what the diagram element may measure once it is in the frame: nothing yet,
\* a size, a size through getBoundingClientRect only (getBBox throws), no size
\* and getBBox throwing
SvgSizes == {<<1, 1>>, <<400, 300>>, <<100000, 10>>}
ZeroSvg == [NoSvg EXCEPT !.present = TRUE]
Sized(z) == [present |-> TRUE, throws |-> FALSE, bbox |-> z, client |-> z, rect |-> z]
Throwing(z) == [present |-> TRUE, throws |-> TRUE, bbox |-> <<0, 0>>, client |-> z, rect |-> z]
SvgStates ==
    {ZeroSvg, Throwing(<<0, 0>>)} \cup {Sized(z) : z \in SvgSizes}
    \cup {Throwing(z) : z \in SvgSizes}

ContainerSizes == {<<800, 600>>, <<120, 60>>}

\* the script has run to its end: the poll and the 5000 ms timer are set
InitFrame ==
    /\ AppIdle
    /\ text = <<>>
    /\ pc = "idle"
    /\ LineIdle
    /\ TikzIdle
    /\ result = [html |-> Null, error |-> Null]
    /\ raised = FALSE
    /\ ScriptStart
    /\ containerRect \in ContainerSizes
    /\ checkSVG = TRUE

UserEvent ==
    /\ events < MaxEvents
    /\ events' = events + 1
    /\ UNCHANGED <<appVars, segVars, result, raised, timerVars, svg, containerRect>>

\* lines 383-387
Wheel ==
    /\ UserEvent
    /\ \E down \in BOOLEAN, p \in Points :
           zoom(IF down THEN 9 ELSE 11, 10, TRUE, p.x, p.y)
    /\ UNCHANGED <<dragVars, touchVars, hasFitToView, fits>>

\* lines 390-399
MouseDown ==
    /\ UserEvent
    /\ \E button \in {0, 2}, p \in Points :
           IF button = 0
           THEN /\ isDragging' = TRUE
                /\ startX' = p.x
                /\ startY' = p.y
                /\ startPanX' = panX
                /\ startPanY' = panY
           ELSE UNCHANGED dragVars
    /\ UNCHANGED <<zoomVars, touchVars, hasFitToView, fits>>

\* panX = startPanX + (clientX - startX), panY likewise, updateTransform()
Drag(p) ==
    /\ panX' = startPanX + (p.x - startX)
    /\ panY' = startPanY + (p.y - startY)
    /\ scale' = scale
    /\ updateTransform

\* lines 401-407
MouseMove ==
    /\ UserEvent
    /\ \E p \in Points : IF isDragging THEN Drag(p) ELSE UNCHANGED zoomVars
    /\ UNCHANGED <<dragVars, touchVars, hasFitToView, fits>>

\* lines 409-412
MouseUp ==
    /\ UserEvent
    /\ isDragging' = FALSE
    /\ UNCHANGED <<startX, startY, startPanX, startPanY, zoomVars, touchVars,
                   hasFitToView, fits>>

\* lines 418-437: one finger, or two fingers d apart around c
TouchStart ==
    /\ UserEvent
    /\ \/ \E p \in Points :
              /\ isDragging' = TRUE
              /\ startX' = p.x
              /\ startY' = p.y
              /\ startPanX' = panX
              /\ startPanY' = panY
              /\ UNCHANGED touchVars
       \/ \E d \in Distances, c \in Points :
              /\ lastTouchDistance' = d
              /\ lastTouchCenter' = c
              /\ UNCHANGED dragVars
    /\ UNCHANGED <<zoomVars, hasFitToView, fits>>

\* lines 441-444: touchmove with one finger
TouchDrag ==
    /\ UserEvent
    /\ \E p \in Points : IF isDragging THEN Drag(p) ELSE UNCHANGED zoomVars
    /\ UNCHANGED <<dragVars, touchVars, hasFitToView, fits>>

\* lines 445-463: touchmove with two fingers, d apart around c
Pinch ==
    /\ UserEvent
    /\ \E d \in Distances, c \in Points :
           /\ IF lastTouchDistance > 0
              THEN zoom(d, lastTouchDistance, TRUE,
                        lastTouchCenter.x, lastTouchCenter.y)
              ELSE UNCHANGED zoomVars
           /\ lastTouchDistance' = d
           /\ lastTouchCenter' = c
    /\ UNCHANGED <<dragVars, hasFitToView, fits>>

\* lines 439-464
TouchMove ==
    \/ TouchDrag
    \/ Pinch

\* lines 466-469
TouchEnd ==
    /\ UserEvent
    /\ isDragging' = FALSE
    /\ lastTouchDistance' = 0
    /\ UNCHANGED <<startX, startY, startPanX, startPanY, lastTouchCenter,
                   zoomVars, hasFitToView, fits>>

\* line 472
ZoomIn ==
    /\ UserEvent
    /\ zoom(12, 10, FALSE, 0, 0)
    /\ UNCHANGED <<dragVars, touchVars, hasFitToView, fits>>

\* line 473
ZoomOut ==
    /\ UserEvent
    /\ zoom(8, 10, FALSE, 0, 0)
    /\ UNCHANGED <<dragVars, touchVars, hasFitToView, fits>>

\* line 474
ZoomReset ==
    /\ UserEvent
    /\ resetZoom
    /\ UNCHANGED <<dragVars, touchVars>>

\* the diagram is drawn into the frame, or gets its size, while the script runs
SvgChange ==
    /\ ~SeenSized
    /\ \E v \in SvgStates : v # svg /\ svg' = v
    /\ UNCHANGED <<appVars, segVars, result, raised, zoomVars, dragVars, touchVars,
                   timerVars, hasFitToView, fits, containerRect, events>>

\* a timer whose time has come and whose callback has not run yet
PollDue == checkSVG /\ now = (ticks + 1) * PollPeriod
FitDue == fitTimer = now
TimeoutDue == ~timedOut /\ now = PollTimeout

\* the times the timers that are set are due at
DueTimes ==
    (IF checkSVG THEN {(ticks + 1) * PollPeriod} ELSE {})
    \cup (IF fitTimer # -1 THEN {fitTimer} ELSE {})
    \cup (IF ~timedOut THEN {PollTimeout} ELSE {})

\* time passes, up to the next time a timer is due at
Advance ==
    /\ ~PollDue /\ ~FitDue /\ ~TimeoutDue
    /\ DueTimes # {}
    /\ Min(DueTimes) <= MaxNow
    /\ now' = Min(DueTimes)
    /\ UNCHANGED <<appVars, segVars, result, raised, zoomVars, dragVars, touchVars,
                   checkSVG, fitTimer, timedOut, ticks, hasFitToView, fits, svg,
                   containerRect, events>>

\* a timeout callback that leaves the interval set
KeepPolling ==
    /\ TimeoutDue
    /\ timedOut' = TRUE
    /\ UNCHANGED <<appVars, segVars, result, raised, zoomVars, dragVars, touchVars,
                   checkSVG, fitTimer, now, ticks, hasFitToView, fits, svg,
                   containerRect, events>>

\* line 511: setTimeout(() => clearInterval(checkSVG), 5000)
ClearPoll ==
    /\ TimeoutDue
    /\ timedOut' = TRUE
    /\ checkSVG' = FALSE
    /\ UNCHANGED <<appVars, segVars, result, raised, zoomVars, dragVars, touchVars,
                   fitTimer, now, ticks, hasFitToView, fits, svg, containerRect,
                   events>>

\* lines 477-509: the callback of the size poll
PollTick ==
    /\ PollDue
    /\ ticks' = ticks + 1
    /\ IF SeenSized
       THEN /\ checkSVG' = FALSE
            /\ fitTimer' = now + FitDelay
       ELSE UNCHANGED <<checkSVG, fitTimer>>
    /\ UNCHANGED <<appVars, segVars, result, raised, zoomVars, dragVars, touchVars,
                   timedOut, now, hasFitToView, fits, svg, containerRect, events>>

\* lines 485-491 and 499-505: the callback of the 50 ms timer
FitTimeout ==
    /\ FitDue
    /\ fitTimer' = -1
    /\ IF ~hasFitToView
       THEN fitToView(hasFitToView)
       ELSE /\ UNCHANGED <<scale, panX, panY, hasFitToView, fits>>
            /\ updateTransform
    /\ UNCHANGED <<appVars, segVars, result, raised, dragVars, touchVars,
                   checkSVG, timedOut, now, ticks, svg, containerRect, events>>

NextFrame ==
    \/ Wheel
    \/ MouseDown
    \/ MouseMove
    \/ MouseUp
    \/ TouchStart
    \/ TouchMove
    \/ TouchEnd
    \/ ZoomIn
    \/ ZoomOut
    \/ ZoomReset
    \/ SvgChange
    \/ Advance
    \/ PollTick
    \/ FitTimeout
    \/ ClearPoll

\* the timers of the browser fire and time passes
SpecFrame ==
    /\ InitFrame
    /\ [][NextFrame]_vars
    /\ WF_vars(Advance)
    /\ WF_vars(PollTick)
    /\ WF_vars(FitTimeout)
    /\ WF_vars(ClearPoll)

\* C15: the size poll stops for good; it stops either in a tick that saw the
\* diagram with a size, which then sets the 50 ms timer of the auto-fit (set at
\* no other moment), or in the callback of the 5000 ms timer; no tick runs
\* after that callback; and neither a tick nor that callback changes scale,
\* pan or the transform applied.
BoundedPoll ==
    /\ <>[](~checkSVG)
    /\ [][/\ timedOut => ticks' = ticks
          /\ (checkSVG /\ ~checkSVG') =>
                 \/ /\ SeenSized
                    /\ ticks' = ticks + 1
                    /\ fitTimer' = now + FitDelay
                 \/ /\ ~timedOut /\ timedOut'
                    /\ now = PollTimeout
                    /\ fitTimer' = fitTimer
          /\ (fitTimer' # fitTimer /\ fitTimer' # -1) => (checkSVG /\ ~checkSVG')
          /\ (ticks' # ticks \/ timedOut' # timedOut) =>
                 UNCHANGED <<scale, panX, panY, transform>>
         ]_vars

\* the diagram never got a size: the poll ticked until the timeout cleared it,
\* no fit ran, and the transform the user's zoom applied is still there
BoundedPollWitness ==
    /\ timedOut
    /\ ~checkSVG
    /\ ticks >= 49
    /\ fitTimer = -1
    /\ fits = 0
    /\ svg.present
    /\ ~SeenSized
    /\ scale # 1000
    /\ transform = <<panX, panY, scale>>

\* C16: scale stays between 0.5 and 50; a fitToView that runs to its end
\* leaves scale at 1.5 or more and pan at (0, 0); a mouse move or a drag with
\* one finger leaves scale as it is.
ZoomBounds ==
    /\ [](500 <= scale /\ scale <= 50000)
    /\ [][/\ fits' # fits => scale' >= 1500 /\ panX' = 0 /\ panY' = 0
          /\ (MouseMove \/ TouchDrag) => scale' = scale
         ]_vars

\* after the auto-fit, the two fingers were brought together (a factor of 0)
\* and scale was held at 0.5
ZoomBoundsWitness ==
    /\ scale = 500
    /\ fits = 1
    /\ now > 0
    /\ events = MaxEvents
    /\ lastTouchDistance = 0
    /\ transform = <<panX, panY, scale>>

====
